---- MODULE Spec2Model ----
(***************************************************************************)
(* External merge sort of fixed-width text records (src/sortFile.ts).      *)
(*                                                                         *)
(* A file is a sequence of bytes (numbers), a line is a sequence of        *)
(* character codes, a path is a string.  The file system maps a path to an *)
(* inode and an inode to its bytes, so that a handle keeps reading the     *)
(* file it opened.  Every await of the source is one step of a job; the    *)
(* code that runs synchronously after an await belongs to that step.       *)
(***************************************************************************)
EXTENDS Integers, Sequences, FiniteSets, Bags, TLC

VARIABLES sorter,   \* the SortFile instance: its three configuration fields
          plan,     \* the caller: which Sort(inFilename, outFilename) calls it makes
          files,    \* storage: path -> inode
          inodes,   \* storage: inode -> bytes
          proc,     \* per Sort invocation: position and local variables
          hist,     \* per Sort invocation: what it has done so far (observation only)
          faults    \* number of I/O operations the environment has failed

vars == <<sorter, plan, files, inodes, proc, hist, faults>>

-----------------------------------------------------------------------------
(* Bounds of the model.                                                    *)

MaxRecords == 4     \* whole records in an input file
MaxFaults == 1      \* I/O operations that fail for an external reason

Jobs == {1, 2}

-----------------------------------------------------------------------------
(* Characters and strings.                                                 *)

NUL == 0
LF == 10
CR == 13
SP == 32
DEL == 127

EOL == <<CR, LF>>
TEMP_FILE_PREFIX == "-temp-"
TEMP_FILE_EXTENSION == ".txt"
MAX_ASCII_CHAR == <<DEL>>

SetMin(S) == CHOOSE x \in S : \A y \in S : x <= y
SetMax(S) == CHOOSE x \in S : \A y \in S : x >= y

\* White space and line terminators removed by String.prototype.trim
\* (the code points a 7-bit or replacement-character string can hold).
IsWhiteSpace(c) == c \in {9, 10, 11, 12, 13, 32}

\* s.trim()
Trim(s) ==
  LET keep == {i \in 1..Len(s) : ~IsWhiteSpace(s[i])}
  IN  IF keep = {} THEN <<>> ELSE SubSeq(s, SetMin(keep), SetMax(keep))

\* buffer.toString("ascii"): the high bit of every byte is dropped.
AsciiDecode(bytes) == [i \in 1..Len(bytes) |-> bytes[i] % 128]

\* buffer.toString("utf8") of bytes none of which continues a sequence:
\* a 7-bit byte is itself, any other byte decodes to U+FFFD.
Utf8Decode(bytes) ==
  [i \in 1..Len(bytes) |-> IF bytes[i] < 128 THEN bytes[i] ELSE 65533]

\* Buffer.from(s, "ascii") and writeFile(.., "ascii"): the low byte of each code unit.
AsciiEncode(s) == [i \in 1..Len(s) |-> s[i] % 256]

\* s.padEnd(n)
PadEnd(s, n) == IF Len(s) >= n THEN s ELSE s \o [i \in 1..(n - Len(s)) |-> SP]

\* a < b on strings: code unit by code unit, a proper prefix is smaller.
LexLess(a, b) ==
  LET n == IF Len(a) < Len(b) THEN Len(a) ELSE Len(b)
      d == {i \in 1..n : a[i] # b[i]}
  IN  IF d = {} THEN Len(a) < Len(b) ELSE a[SetMin(d)] < b[SetMin(d)]

RECURSIVE InsertLine(_, _)
InsertLine(x, s) ==
  IF s = <<>> THEN <<x>>
  ELSE IF LexLess(x, Head(s)) THEN <<x>> \o s
  ELSE <<Head(s)>> \o InsertLine(x, Tail(s))

\* lines.sort(): ascending by code units.
RECURSIVE SortLines(_)
SortLines(lines) ==
  IF lines = <<>> THEN <<>>
  ELSE InsertLine(lines[Len(lines)], SortLines(SubSeq(lines, 1, Len(lines) - 1)))

\* lines.join(EOL) + EOL
RECURSIVE JoinLines(_)
JoinLines(lines) ==
  IF lines = <<>> THEN EOL
  ELSE IF Len(lines) = 1 THEN lines[1] \o EOL
  ELSE lines[1] \o EOL \o JoinLines(Tail(lines))

\* The reduce of findMinLine, from element i on.
RECURSIVE ReduceMin(_, _, _)
ReduceMin(lines, i, min) ==
  IF i > Len(lines) THEN min
  ELSE ReduceMin(lines, i + 1,
                 IF lines[i] # <<>> /\ LexLess(lines[i], min) THEN lines[i] ELSE min)

\* lines.indexOf(x): the first position (from 0) holding x, -1 when none does.
IndexOf(lines, x) ==
  LET at == {i \in 1..Len(lines) : lines[i] = x}
  IN  IF at = {} THEN -1 ELSE SetMin(at) - 1

FindMinLine(lines) ==
  LET minLine == ReduceMin(lines, 1, MAX_ASCII_CHAR)
  IN  [minLine |-> minLine, minIndex |-> IndexOf(lines, minLine)]

-----------------------------------------------------------------------------
(* Storage.                                                                *)

Dirs == {"d", "."}

\* The directory part of a path.
Dirname(path) ==
  LET at == {i \in 1..Len(path) : SubSeq(path, i, i) = "/"}
  IN  IF at = {} THEN "." ELSE SubSeq(path, 1, SetMax(at) - 1)

Exists(path) == path \in DOMAIN files
Content(path) == inodes[files[path]]

\* fsp.access(path) succeeds on an existing file or directory.
Access(path) == Exists(path) \/ path \in Dirs

\* Buffer.alloc(n)
Alloc(n) == [i \in 1..n |-> NUL]

\* The bytes a read of up to n bytes at byte offset pos returns.
ReadBytes(content, n, pos) ==
  IF pos >= Len(content) THEN <<>>
  ELSE SubSeq(content, pos + 1, IF pos + n <= Len(content) THEN pos + n ELSE Len(content))

\* handle.read(buffer, 0, n, pos): the bytes read overwrite the start of the
\* buffer, the rest of the buffer keeps what it held.
ReadInto(buffer, bytes) ==
  [i \in 1..Len(buffer) |-> IF i <= Len(bytes) THEN bytes[i] ELSE buffer[i]]

NoHandle == [ino |-> "", open |-> FALSE]
OpenHandle(path) == [ino |-> files[path], open |-> TRUE]
CloseHandle(h) == [h EXCEPT !.open = FALSE]

Unlinked(path) == [p \in (DOMAIN files) \ {path} |-> files[p]]

\* inFilename.slice(0, -4)
FileNameNoEnd(inFilename) ==
  IF Len(inFilename) > 4 THEN SubSeq(inFilename, 1, Len(inFilename) - 4) ELSE ""

\* The Run path as it would be without the prefix and the counter: for an
\* input that ends in ".txt" it is the path of the input.
TempFilePathOfInput(fileNameNoEnd, segmentCounter) ==
  fileNameNoEnd \o TEMP_FILE_EXTENSION

TempFilePath(fileNameNoEnd, segmentCounter) ==
  fileNameNoEnd \o TEMP_FILE_PREFIX \o ToString(segmentCounter) \o TEMP_FILE_EXTENSION

-----------------------------------------------------------------------------
(* One Sort invocation.                                                    *)

NoError == "none"

InitProc ==
  [pc |-> "idle", inFilename |-> "", outFilename |-> "",
   fileHandle |-> NoHandle, buffer |-> <<>>, bytesRead |-> 0, lineCount |-> 0,
   segments |-> <<>>, segmentCounter |-> 0, fileNameNoEnd |-> "", lines |-> <<>>,
   fileHandles |-> <<>>, outFile |-> NoHandle, positions |-> <<>>,
   minLine |-> <<>>, minIndex |-> 0, pending |-> {}, error |-> NoError]

InitHist ==
  [input |-> <<>>, inputIno |-> "", created |-> {}, runs |-> <<>>,
   written |-> <<>>, ran |-> {},
   validated |-> FALSE, segmented |-> FALSE, merged |-> FALSE,
   outOpened |-> FALSE, loopFailed |-> FALSE, faulted |-> FALSE]

Step(j, p, h) ==
  /\ proc' = [proc EXCEPT ![j] = p]
  /\ hist' = [hist EXCEPT ![j] = h]

\* The environment fails the I/O operation of this step.
Fault == faults < MaxFaults /\ faults' = faults + 1
NoFault == faults' = faults

Ran(h, stage) == [h EXCEPT !.ran = @ \cup {stage}]
Faulted(h, stage) == [h EXCEPT !.ran = @ \cup {stage}, !.faulted = TRUE]

\* A rejected promise: the invocation ends with this error.
Reject(p, err) == [p EXCEPT !.pc = "rejected", !.error = err]

\* Sort as it would be without its first line: run generation starts unvalidated.
SortWithoutValidation(j) ==
  /\ proc[j].pc = "idle"
  /\ plan[j].after # 0 => proc[plan[j].after].pc = "resolved"
  /\ Step(j, [proc[j] EXCEPT !.pc = "sortSegments",
                             !.inFilename = plan[j].inFilename,
                             !.outFilename = plan[j].outFilename],
             [hist[j] EXCEPT !.input = IF Exists(plan[j].inFilename)
                                       THEN Content(plan[j].inFilename) ELSE <<>>,
                             !.inputIno = IF Exists(plan[j].inFilename)
                                          THEN files[plan[j].inFilename] ELSE ""])
  /\ UNCHANGED <<sorter, plan, files, inodes, faults>>

\* async Sort(inFilename, outFilename): the call, up to its first await.
Sort(j) ==
  /\ proc[j].pc = "idle"
  /\ plan[j].after # 0 => proc[plan[j].after].pc = "resolved"
  /\ Step(j, [proc[j] EXCEPT !.pc = "checkFileExists",
                             !.inFilename = plan[j].inFilename,
                             !.outFilename = plan[j].outFilename],
             [hist[j] EXCEPT !.input = IF Exists(plan[j].inFilename)
                                       THEN Content(plan[j].inFilename) ELSE <<>>,
                             !.inputIno = IF Exists(plan[j].inFilename)
                                          THEN files[plan[j].inFilename] ELSE ""])
  /\ UNCHANGED <<sorter, plan, files, inodes, faults>>

CheckFileExists(j) ==
  LET p == proc[j] IN
  /\ p.pc = "checkFileExists"
  /\ Step(j, IF Access(p.inFilename)
             THEN [p EXCEPT !.pc = "checkFileSizeLimit"]
             ELSE Reject(p, "FileDoesNotExist"),
          Ran(hist[j], "validate"))
  /\ UNCHANGED <<sorter, plan, files, inodes, faults>>

CheckFileSizeLimit(j) ==
  LET p == proc[j] IN
  /\ p.pc = "checkFileSizeLimit"
  /\ Step(j, IF ~Exists(p.inFilename) THEN Reject(p, "IOError")
             ELSE IF Len(Content(p.inFilename)) > sorter.maxFileSizeBytes
             THEN Reject(p, "FileSizeExceeds")
             ELSE [p EXCEPT !.pc = "validateFileContents"],
          Ran(hist[j], "validate"))
  /\ UNCHANGED <<sorter, plan, files, inodes, faults>>

\* validateFileContents: the open, and the locals of checkLineLengthAndCount.
ValidateFileContents(j) ==
  LET p == proc[j] IN
  /\ p.pc = "validateFileContents"
  /\ \/ /\ Exists(p.inFilename)
        /\ NoFault
        /\ Step(j, [p EXCEPT !.pc = "checkLineLengthAndCount",
                             !.fileHandle = OpenHandle(p.inFilename),
                             !.bytesRead = 0,
                             !.buffer = Alloc(sorter.lineSizeBytes),
                             !.lineCount = 0],
                Ran(hist[j], "validate"))
     \/ /\ ~Exists(p.inFilename)
        /\ NoFault
        /\ Step(j, Reject(p, "IOError"), Ran(hist[j], "validate"))
     \/ /\ Fault
        /\ Step(j, Reject(p, "IOError"), Faulted(hist[j], "validate"))
  /\ UNCHANGED <<sorter, plan, files, inodes>>

\* line.length + EOL.length !== this.lineSizeBytes
BadLength(line) == Len(line) + Len(EOL) # sorter.lineSizeBytes

\* The count check as it would be on the byte count instead of the line count.
NotDivisibleBytes(lineCount) ==
  (lineCount * sorter.lineSizeBytes) % sorter.numberOfLinesPerSegment # 0

\* lineCount % this.numberOfLinesPerSegment !== 0
NotDivisible(lineCount) == lineCount % sorter.numberOfLinesPerSegment # 0

\* One iteration of the loop of checkLineLengthAndCount; on end of file, the
\* count check.  Whatever is thrown is held until the handle is closed.
CheckLineLengthAndCount(j) ==
  LET p == proc[j]
      bytes == ReadBytes(inodes[p.fileHandle.ino], sorter.lineSizeBytes, p.bytesRead)
      buffer == ReadInto(p.buffer, bytes)
      line == Trim(AsciiDecode(buffer))
      thrown(err) == [p EXCEPT !.pc = "validateClose", !.error = err]
  IN
  /\ p.pc = "checkLineLengthAndCount"
  /\ \/ /\ NoFault
        /\ Step(j, IF bytes = <<>>
                   THEN IF NotDivisible(p.lineCount)
                        THEN thrown("NotDivisible")
                        ELSE [p EXCEPT !.pc = "validateClose"]
                   ELSE IF BadLength(line)
                        THEN [thrown("LineLength") EXCEPT !.buffer = buffer]
                        ELSE [p EXCEPT !.buffer = buffer,
                                       !.lineCount = @ + 1,
                                       !.bytesRead = @ + Len(bytes)],
                Ran(hist[j], "validate"))
     \/ /\ Fault
        /\ Step(j, thrown("IOError"), Faulted(hist[j], "validate"))
  /\ UNCHANGED <<sorter, plan, files, inodes>>

\* finally { await fileHandle.close() } of validateFileContents.
ValidateClose(j) ==
  LET p == proc[j]
      q == [p EXCEPT !.fileHandle = CloseHandle(@)]
  IN
  /\ p.pc = "validateClose"
  /\ Step(j, IF p.error # NoError THEN Reject(q, p.error)
             ELSE [q EXCEPT !.pc = "checkOutputDirectory"],
          Ran(hist[j], "validate"))
  /\ UNCHANGED <<sorter, plan, files, inodes, faults>>

\* fsp.access(outFilename) does not throw
OutputAccessible(outFilename) == Access(outFilename)

CheckOutputDirectory(j) ==
  LET p == proc[j] IN
  /\ p.pc = "checkOutputDirectory"
  /\ IF OutputAccessible(p.outFilename)
     THEN Step(j, [p EXCEPT !.pc = "sortSegments"],
               [Ran(hist[j], "validate") EXCEPT !.validated = TRUE])
     ELSE Step(j, Reject(p, "OutputDirectory"), Ran(hist[j], "validate"))
  /\ UNCHANGED <<sorter, plan, files, inodes, faults>>

-----------------------------------------------------------------------------
(* Run generation.                                                         *)

\* storage after fsp.writeFile(path, data) by job j: an existing file is
\* truncated and rewritten, a missing one is created.
WriteFile(j, path, data) ==
  IF Exists(path)
  THEN /\ files' = files
       /\ inodes' = [inodes EXCEPT ![files[path]] = data]
  ELSE LET ino == path \o "#" \o ToString(j) IN
       /\ files' = (path :> ino) @@ files
       /\ inodes' = (ino :> data) @@ inodes

\* sortSegments, up to the first read: its locals, the open, and the buffer
\* of the first readSegment.
SortSegments(j) ==
  LET p == proc[j] IN
  /\ p.pc = "sortSegments"
  /\ \/ /\ Exists(p.inFilename)
        /\ NoFault
        /\ Step(j, [p EXCEPT !.pc = "readSegment",
                             !.segments = <<>>,
                             !.segmentCounter = 0,
                             !.bytesRead = 0,
                             !.fileNameNoEnd = FileNameNoEnd(p.inFilename),
                             !.fileHandle = OpenHandle(p.inFilename),
                             !.lines = <<>>,
                             !.buffer = Alloc(sorter.lineSizeBytes)],
                Ran(hist[j], "segment"))
     \/ /\ ~Exists(p.inFilename)
        /\ NoFault
        /\ Step(j, Reject(p, "IOError"), Ran(hist[j], "segment"))
     \/ /\ Fault
        /\ Step(j, Reject(p, "IOError"), Faulted(hist[j], "segment"))
  /\ UNCHANGED <<sorter, plan, files, inodes>>

\* What sortSegments does with the lines readSegment returned: leave the
\* loop on none, otherwise sort them (writeSortedSegment) and write them.
SegmentRead(p, lines) ==
  IF Len(lines) = 0
  THEN [p EXCEPT !.pc = "sortSegmentsClose", !.lines = lines]
  ELSE [p EXCEPT !.pc = "writeSortedSegment", !.lines = SortLines(lines)]

\* One iteration of the for loop of readSegment: iteration i = lines.length.
ReadSegment(j) ==
  LET p == proc[j]
      position == p.bytesRead + Len(p.lines) * sorter.lineSizeBytes
      bytes == ReadBytes(inodes[p.fileHandle.ino], sorter.lineSizeBytes, position)
      buffer == ReadInto(p.buffer, bytes)
      lines == Append(p.lines, Trim(Utf8Decode(buffer)))
  IN
  /\ p.pc = "readSegment"
  /\ \/ /\ NoFault
        /\ Step(j, IF bytes = <<>> THEN SegmentRead(p, p.lines)
                   ELSE IF Len(lines) < sorter.numberOfLinesPerSegment
                   THEN [p EXCEPT !.buffer = buffer, !.lines = lines]
                   ELSE SegmentRead([p EXCEPT !.buffer = buffer], lines),
                Ran(hist[j], "segment"))
     \/ /\ Fault
        /\ Step(j, [p EXCEPT !.pc = "sortSegmentsClose", !.error = "IOError"],
                Faulted(hist[j], "segment"))
  /\ UNCHANGED <<sorter, plan, files, inodes>>

\* The writeFile of writeSortedSegment and the rest of the loop body of
\* sortSegments.
WriteSortedSegment(j) ==
  LET p == proc[j]
      tempFilePath == TempFilePath(p.fileNameNoEnd, p.segmentCounter)
      data == AsciiEncode(JoinLines(p.lines))
      thrown == [p EXCEPT !.pc = "sortSegmentsClose", !.error = "IOError"]
  IN
  /\ p.pc = "writeSortedSegment"
  /\ \/ /\ Dirname(tempFilePath) \in Dirs
        /\ NoFault
        /\ WriteFile(j, tempFilePath, data)
        /\ Step(j, [p EXCEPT !.pc = "readSegment",
                             !.segments = Append(@, tempFilePath),
                             !.segmentCounter = @ + 1,
                             !.bytesRead = @ + Len(p.lines) * sorter.lineSizeBytes,
                             !.lines = <<>>,
                             !.buffer = Alloc(sorter.lineSizeBytes)],
                [Ran(hist[j], "segment") EXCEPT !.created = @ \cup {tempFilePath},
                                                !.runs = Append(@, p.lines)])
     \/ /\ Dirname(tempFilePath) \notin Dirs
        /\ NoFault
        /\ UNCHANGED <<files, inodes>>
        /\ Step(j, thrown, Ran(hist[j], "segment"))
     \/ /\ Fault
        /\ UNCHANGED <<files, inodes>>
        /\ Step(j, thrown, Faulted(hist[j], "segment"))
  /\ UNCHANGED <<sorter, plan>>

\* The state in which mergeSegments starts: every open of a Run is under way.
MergeSegments(p) ==
  [p EXCEPT !.pc = IF Len(p.segments) = 0 THEN "mergeOpenOut" ELSE "mergeOpenRuns",
            !.fileHandles = [i \in 1..Len(p.segments) |-> NoHandle],
            !.pending = 1..Len(p.segments)]

\* finally { await fileHandle.close() } of sortSegments; then Sort goes on
\* to mergeSegments.
SortSegmentsClose(j) ==
  LET p == proc[j]
      q == [p EXCEPT !.fileHandle = CloseHandle(@)]
  IN
  /\ p.pc = "sortSegmentsClose"
  /\ IF p.error # NoError
     THEN Step(j, Reject(q, p.error), Ran(hist[j], "segment"))
     ELSE Step(j, MergeSegments(q),
               [Ran(hist[j], "segment") EXCEPT !.segmented = TRUE])
  /\ UNCHANGED <<sorter, plan, files, inodes, faults>>

-----------------------------------------------------------------------------
(* Merge.                                                                  *)

\* One of the opens of Promise.all(segments.map(open)) completes; the opens
\* complete in any order, and the first to fail rejects mergeSegments.
MergeOpenRuns(j) ==
  LET p == proc[j] IN
  /\ p.pc = "mergeOpenRuns"
  /\ \E i \in p.pending :
       \/ /\ Exists(p.segments[i])
          /\ NoFault
          /\ Step(j, [p EXCEPT !.fileHandles[i] = OpenHandle(p.segments[i]),
                               !.pending = @ \ {i},
                               !.pc = IF p.pending = {i} THEN "mergeOpenOut" ELSE @],
                  Ran(hist[j], "merge"))
       \/ /\ ~Exists(p.segments[i])
          /\ NoFault
          /\ Step(j, Reject(p, "IOError"), Ran(hist[j], "merge"))
       \/ /\ Fault
          /\ Step(j, Reject(p, "IOError"), Faulted(hist[j], "merge"))
  /\ UNCHANGED <<sorter, plan, files, inodes>>

\* The cleanup as it would be without its first line: no Run handle is closed.
CleanupFilesNoClose(p) == [p EXCEPT !.pc = "cleanupCloseOut", !.pending = {}]

\* The cleanup starts: every close of a Run handle is under way.
CleanupFiles(p) ==
  [p EXCEPT !.pc = IF Len(p.fileHandles) = 0 THEN "cleanupCloseOut" ELSE "cleanupCloseRuns",
            !.pending = 1..Len(p.fileHandles)]

\* An error thrown inside performMerge: the finally block runs the cleanup.
MergeThrown(p, err) == CleanupFiles([p EXCEPT !.error = err])

\* The head of the loop of performMerge: select and start the write, or end.
MergeLoop(p) ==
  IF \E i \in 1..Len(p.lines) : p.lines[i] # <<>>
  THEN LET min == FindMinLine(p.lines)
       IN  [p EXCEPT !.pc = "writeLineToOutput",
                     !.minLine = min.minLine,
                     !.minIndex = min.minIndex]
  ELSE CleanupFiles(p)

\* fsp.open(outFilename, "w"), then performMerge up to its first await: the
\* first read of every Run is under way.
MergeOpenOut(j) ==
  LET p == proc[j]
      k == Len(p.fileHandles)
      ino == IF Exists(p.outFilename) THEN files[p.outFilename]
             ELSE p.outFilename \o "#" \o ToString(j)
      q == [p EXCEPT !.outFile = [ino |-> ino, open |-> TRUE],
                     !.lines = [i \in 1..k |-> <<>>],
                     !.positions = [i \in 1..k |-> sorter.lineSizeBytes],
                     !.pending = 1..k]
  IN
  /\ p.pc = "mergeOpenOut"
  /\ \/ /\ Dirname(p.outFilename) \in Dirs
        /\ p.outFilename \notin Dirs
        /\ NoFault
        /\ WriteFile(j, p.outFilename, <<>>)
        /\ Step(j, IF k = 0 THEN MergeLoop(q) ELSE [q EXCEPT !.pc = "readInitialLines"],
                [Ran(hist[j], "merge") EXCEPT !.outOpened = TRUE])
     \/ /\ Dirname(p.outFilename) \notin Dirs \/ p.outFilename \in Dirs
        /\ NoFault
        /\ UNCHANGED <<files, inodes>>
        /\ Step(j, Reject(p, "IOError"), Ran(hist[j], "merge"))
     \/ /\ Fault
        /\ UNCHANGED <<files, inodes>>
        /\ Step(j, Reject(p, "IOError"), Faulted(hist[j], "merge"))
  /\ UNCHANGED <<sorter, plan>>

\* The string a merge read leaves in lines[index]: a fresh buffer, decoded and trimmed.
BufferedLine(bytes) == Trim(AsciiDecode(ReadInto(Alloc(sorter.lineSizeBytes), bytes)))

\* One of the reads of readInitialLines completes (in any order).
ReadInitialLines(j) ==
  LET p == proc[j] IN
  /\ p.pc = "readInitialLines"
  /\ \E i \in p.pending :
       LET bytes == ReadBytes(inodes[p.fileHandles[i].ino], sorter.lineSizeBytes, 0)
           q == [p EXCEPT !.lines[i] = BufferedLine(bytes), !.pending = @ \ {i}]
       IN  \/ /\ NoFault
              /\ Step(j, IF q.pending = {} THEN MergeLoop(q) ELSE q,
                      Ran(hist[j], "merge"))
           \/ /\ Fault
              /\ Step(j, MergeThrown(p, "IOError"),
                      [Faulted(hist[j], "merge") EXCEPT !.loopFailed = TRUE])
  /\ UNCHANGED <<sorter, plan, files, inodes>>

\* The bytes writeLineToOutput writes for a line.
OutputRecord(line) ==
  AsciiEncode(PadEnd(line, sorter.lineSizeBytes - Len(EOL)) \o EOL)

\* outFile.write(..) completes; readNextLine is then called with
\* fileHandles[minIndex], which throws at once when minIndex is -1.
WriteLineToOutput(j) ==
  LET p == proc[j] IN
  /\ p.pc = "writeLineToOutput"
  /\ \/ /\ NoFault
        /\ inodes' = [inodes EXCEPT ![p.outFile.ino] = @ \o OutputRecord(p.minLine)]
        /\ IF p.minIndex = -1
           THEN Step(j, MergeThrown(p, "TypeError"),
                     [Ran(hist[j], "merge") EXCEPT !.written = Append(@, p.minLine),
                                                   !.loopFailed = TRUE])
           ELSE Step(j, [p EXCEPT !.pc = "readNextLine"],
                     [Ran(hist[j], "merge") EXCEPT !.written = Append(@, p.minLine)])
     \/ /\ Fault
        /\ UNCHANGED inodes
        /\ Step(j, MergeThrown(p, "IOError"),
                [Faulted(hist[j], "merge") EXCEPT !.loopFailed = TRUE])
  /\ UNCHANGED <<sorter, plan, files>>

\* The read of readNextLine completes; the loop condition is tested again.
ReadNextLine(j) ==
  LET p == proc[j]
      index == p.minIndex + 1
      bytes == ReadBytes(inodes[p.fileHandles[index].ino], sorter.lineSizeBytes,
                         p.positions[index])
      q == [p EXCEPT !.positions[index] = @ + sorter.lineSizeBytes,
                     !.lines[index] = IF bytes = <<>> THEN <<>> ELSE BufferedLine(bytes)]
  IN
  /\ p.pc = "readNextLine"
  /\ \/ /\ NoFault
        /\ Step(j, MergeLoop(q), Ran(hist[j], "merge"))
     \/ /\ Fault
        /\ Step(j, MergeThrown(p, "IOError"),
                [Faulted(hist[j], "merge") EXCEPT !.loopFailed = TRUE])
  /\ UNCHANGED <<sorter, plan, files, inodes>>

\* mergeSegments, and with it Sort, settles: with the error of the cleanup or
\* of the merge loop if there is one.
Settle(p) ==
  [p EXCEPT !.pc = IF p.error = NoError THEN "resolved" ELSE "rejected", !.pending = {}]

\* One close of Promise.all(fileHandles.map(close)) completes.
CleanupCloseRuns(j) ==
  LET p == proc[j] IN
  /\ p.pc = "cleanupCloseRuns"
  /\ \E i \in p.pending :
       Step(j, [p EXCEPT !.fileHandles[i] = CloseHandle(@),
                         !.pending = @ \ {i},
                         !.pc = IF p.pending = {i} THEN "cleanupCloseOut" ELSE @],
            Ran(hist[j], "merge"))
  /\ UNCHANGED <<sorter, plan, files, inodes, faults>>

\* outFile.close() completes; every unlink is then under way.
CleanupCloseOut(j) ==
  LET p == proc[j]
      q == [p EXCEPT !.outFile = CloseHandle(@), !.pending = 1..Len(p.segments)]
  IN
  /\ p.pc = "cleanupCloseOut"
  /\ Step(j, IF Len(p.segments) = 0 THEN Settle(q) ELSE [q EXCEPT !.pc = "cleanupUnlink"],
          [Ran(hist[j], "merge") EXCEPT
             !.merged = Len(p.segments) = 0 /\ p.error = NoError])
  /\ UNCHANGED <<sorter, plan, files, inodes, faults>>

\* One unlink of Promise.all(segments.map(unlink)) completes; unlinking a
\* path that is gone fails, and that error replaces the one being thrown.
CleanupUnlink(j) ==
  LET p == proc[j] IN
  /\ p.pc = "cleanupUnlink"
  /\ \E i \in p.pending :
       LET q == [p EXCEPT !.pending = @ \ {i},
                          !.error = IF Exists(p.segments[i]) THEN @ ELSE "IOError"]
       IN  /\ files' = IF Exists(p.segments[i]) THEN Unlinked(p.segments[i]) ELSE files
           /\ Step(j, IF q.pending = {} THEN Settle(q) ELSE q,
                   [Ran(hist[j], "merge") EXCEPT
                      !.merged = q.pending = {} /\ q.error = NoError])
  /\ UNCHANGED <<sorter, plan, inodes, faults>>

-----------------------------------------------------------------------------
(* Configurations, input files and the two specifications.                 *)

\* new SortFile(maxFileSizeBytes, numberOfLinesPerSegment, lineSizeBytes):
\* records of two characters and the terminator, one or two records per segment.
Configs ==
  {[maxFileSizeBytes |-> 16, numberOfLinesPerSegment |-> n, lineSizeBytes |-> 4] :
     n \in {1, 2}}

\* Payloads of whole records: "ab", "ba" and DEL followed by "a".
Payloads == {<<97, 98>>, <<98, 97>>, <<DEL, 97>>}
WholeRecords == {payload \o EOL : payload \in Payloads}

\* What may follow the whole records of an input file: nothing; a record cut
\* short after one byte; a record one character short; a record one
\* character long.
Tails == {<<>>, <<98>>, <<97, CR, LF>>, <<97, 98, 98, CR, LF>>}

RECURSIVE Flatten(_)
Flatten(ss) == IF ss = <<>> THEN <<>> ELSE Head(ss) \o Flatten(Tail(ss))

InputContents ==
  {Flatten(rs) \o tail :
     rs \in UNION {[1..n -> WholeRecords] : n \in 0..MaxRecords}, tail \in Tails}

\* Output paths: an existing file, a missing file in an existing directory,
\* a file in a missing directory, and a directory.
OutPaths == {"d/o.txt", "d/n.txt", "m/o.txt", "d"}

InitCommon ==
  /\ sorter \in Configs
  /\ proc = [j \in Jobs |-> InitProc]
  /\ hist = [j \in Jobs |-> InitHist]
  /\ faults = 0

\* One Sort of d/x.txt; when it has resolved, a second Sort of its output.
Init ==
  /\ InitCommon
  /\ \E content \in InputContents, present \in BOOLEAN, out \in OutPaths :
       /\ present \/ content = <<>>
       /\ plan = [j \in Jobs |->
                    IF j = 1
                    THEN [inFilename |-> "d/x.txt", outFilename |-> out, after |-> 0]
                    ELSE [inFilename |-> out, outFilename |-> "d/p.txt", after |-> 1]]
       /\ files = [path \in (IF present THEN {"d/x.txt"} ELSE {}) \cup {"d/o.txt", "d/p.txt"}
                     |-> "i:" \o path]
       /\ inodes = [ino \in {"i:d/x.txt", "i:d/o.txt", "i:d/p.txt"} |->
                      IF ino = "i:d/x.txt" THEN content ELSE <<120>>]

\* Input files of the concurrent Sorts: two whole records each.
ConcContents == {r1 \o EOL \o <<97, 98>> \o EOL : r1 \in {<<97, 98>>, <<98, 97>>}}

\* Two Sorts at once on one instance, as sortTwoFilesConcurrently makes
\* them: different input paths, different output paths.
InitConc ==
  /\ InitCommon
  /\ \E c1 \in ConcContents, c2 \in ConcContents, in2 \in {"d/y.txt", "d/x.dat", "d/yy"} :
       /\ plan = [j \in Jobs |->
                    IF j = 1
                    THEN [inFilename |-> "d/x.txt", outFilename |-> "d/o.txt", after |-> 0]
                    ELSE [inFilename |-> in2, outFilename |-> "d/p.txt", after |-> 0]]
       /\ files = [path \in {"d/x.txt", in2, "d/o.txt", "d/p.txt"} |-> "i:" \o path]
       /\ inodes = [ino \in {"i:d/x.txt", "i:" \o in2, "i:d/o.txt", "i:d/p.txt"} |->
                      IF ino = "i:d/x.txt" THEN c1
                      ELSE IF ino = "i:" \o in2 THEN c2 ELSE <<120>>]

Next ==
  \E j \in Jobs :
    \/ Sort(j)
    \/ CheckFileExists(j)
    \/ CheckFileSizeLimit(j)
    \/ ValidateFileContents(j)
    \/ CheckLineLengthAndCount(j)
    \/ ValidateClose(j)
    \/ CheckOutputDirectory(j)
    \/ SortSegments(j)
    \/ ReadSegment(j)
    \/ WriteSortedSegment(j)
    \/ SortSegmentsClose(j)
    \/ MergeOpenRuns(j)
    \/ MergeOpenOut(j)
    \/ ReadInitialLines(j)
    \/ WriteLineToOutput(j)
    \/ ReadNextLine(j)
    \/ CleanupCloseRuns(j)
    \/ CleanupCloseOut(j)
    \/ CleanupUnlink(j)

Spec == Init /\ [][Next]_vars

SpecConc == InitConc /\ [][Next]_vars

\* Run files handed to mergeSegments: sorted Runs of zero, one or two whole records.
RunContents ==
  {<<>>} \cup {r \o EOL : r \in Payloads}
         \cup {pair[1] \o EOL \o pair[2] \o EOL :
                 pair \in {rs \in Payloads \X Payloads : ~LexLess(rs[2], rs[1])}}

\* mergeSegments(segments, outFilename) called by job 1 on one or two Run
\* files, up to its first await.
InitMerge ==
  /\ sorter \in Configs
  /\ faults = 0
  /\ \E k \in 1..2 :
       \E contents \in [1..k -> RunContents] :
         LET segments == [i \in 1..k |-> "d/r" \o ToString(i - 1) \o ".txt"]
             runs == {segments[i] : i \in 1..k}
         IN  /\ plan = [j \in Jobs |->
                          [inFilename |-> "", outFilename |-> "d/o.txt", after |-> 0]]
             /\ files = [path \in runs \cup {"d/o.txt"} |-> "i:" \o path]
             /\ inodes = [ino \in {"i:" \o path : path \in runs \cup {"d/o.txt"}} |->
                            IF ino = "i:d/o.txt" THEN <<120>>
                            ELSE contents[CHOOSE i \in 1..k : ino = "i:" \o segments[i]]]
             /\ proc = [j \in Jobs |->
                          IF j = 1
                          THEN MergeSegments([InitProc EXCEPT !.segments = segments,
                                                              !.outFilename = "d/o.txt"])
                          ELSE InitProc]
             /\ hist = [j \in Jobs |->
                          IF j = 1 THEN [InitHist EXCEPT !.created = runs] ELSE InitHist]

\* The steps of mergeSegments.
NextMerge ==
  \E j \in Jobs :
    \/ MergeOpenRuns(j)
    \/ MergeOpenOut(j)
    \/ ReadInitialLines(j)
    \/ WriteLineToOutput(j)
    \/ ReadNextLine(j)
    \/ CleanupCloseRuns(j)
    \/ CleanupCloseOut(j)
    \/ CleanupUnlink(j)

SpecMerge == InitMerge /\ [][NextMerge]_vars

\* Configurations with the narrowest records: the terminator alone, and the
\* terminator after one character.
NarrowConfigs ==
  {[maxFileSizeBytes |-> 16, numberOfLinesPerSegment |-> n, lineSizeBytes |-> w] :
     n \in {1, 2}, w \in {2, 3}}

\* Input files for them: records of an empty payload and of the payload "a".
NarrowContents ==
  {Flatten(rs) : rs \in UNION {[1..n -> {EOL, <<97>> \o EOL}] : n \in 0..MaxRecords}}

\* One Sort of d/x.txt into d/o.txt with a narrow configuration; when it has
\* resolved, a second Sort of its output.
InitNarrow ==
  /\ sorter \in NarrowConfigs
  /\ proc = [j \in Jobs |-> InitProc]
  /\ hist = [j \in Jobs |-> InitHist]
  /\ faults = 0
  /\ \E content \in NarrowContents :
       /\ plan = [j \in Jobs |->
                    IF j = 1
                    THEN [inFilename |-> "d/x.txt", outFilename |-> "d/o.txt", after |-> 0]
                    ELSE [inFilename |-> "d/o.txt", outFilename |-> "d/p.txt", after |-> 1]]
       /\ files = [path \in {"d/x.txt", "d/o.txt", "d/p.txt"} |-> "i:" \o path]
       /\ inodes = [ino \in {"i:d/x.txt", "i:d/o.txt", "i:d/p.txt"} |->
                      IF ino = "i:d/x.txt" THEN content ELSE <<120>>]

SpecNarrow == InitNarrow /\ [][Next]_vars

-----------------------------------------------------------------------------
(* Vocabulary of the properties.                                           *)

Settled(j) == proc[j].pc \in {"resolved", "rejected"}
Resolved(j) == proc[j].pc = "resolved"
Rejected(j) == proc[j].pc = "rejected"

\* The fixed-width windows of a file, the last one possibly short.
Windows(content) ==
  LET w == sorter.lineSizeBytes
      n == (Len(content) + w - 1) \div w
  IN  [i \in 1..n |->
         SubSeq(content, (i - 1) * w + 1, IF i * w <= Len(content) THEN i * w ELSE Len(content))]

\* The records of a file: its windows as strings without surrounding white space.
Records(content) ==
  LET ws == Windows(content) IN [i \in 1..Len(ws) |-> Trim(AsciiDecode(ws[i]))]

\* Every record occupies exactly lineSizeBytes bytes, terminator included.
WellFormed(content) ==
  /\ Len(content) % sorter.lineSizeBytes = 0
  /\ \A i \in 1..Len(Windows(content)) :
       LET window == Windows(content)[i]
           payload == SubSeq(window, 1, Len(window) - Len(EOL))
       IN  /\ SubSeq(window, Len(window) - Len(EOL) + 1, Len(window)) = EOL
           /\ \A k \in 1..Len(payload) : payload[k] \notin {CR, LF}

NonDecreasing(lines) ==
  \A i \in 1..(Len(lines) - 1) : ~LexLess(lines[i + 1], lines[i])

BagOf(lines) ==
  [x \in {lines[i] : i \in 1..Len(lines)} |-> Cardinality({i \in 1..Len(lines) : lines[i] = x})]

\* The output file of job j as it is now (empty when there is none).
Output(j) ==
  IF Exists(proc[j].outFilename) THEN Content(proc[j].outFilename) ELSE <<>>

-----------------------------------------------------------------------------
(* Properties.                                                             *)

\* C1: for an input that passed validation, the records written to the
\* output so far are in non-decreasing order at every point of the merge,
\* and after a successful Sort the records of the output file are in
\* non-decreasing order.
C1_OutputSorted ==
  \A j \in Jobs :
    hist[j].validated =>
      /\ NonDecreasing(hist[j].written)
      /\ Resolved(j) => NonDecreasing(Records(Output(j)))

\* C2: after a successful Sort of an input that passed validation, the
\* records of the output are, as a multiset, the records of the input.
C2_OutputIsPermutation ==
  \A j \in Jobs :
    (Resolved(j) /\ hist[j].validated) =>
      BagOf(Records(Output(j))) = BagOf(Records(hist[j].input))

\* C3: when a Sort has settled, none of the Run files it created is left
\* on storage.
C3_NoRunFileRemains ==
  \A j \in Jobs :
    Settled(j) => \A path \in hist[j].created : ~Exists(path)

\* C4: when the merge loop has failed, and when it has succeeded, Sort
\* settles only after the cleanup: every Run handle closed, the output
\* handle closed, every Run file deleted; and the cleanup keeps this order:
\* the output handle is closed only once every Run handle is closed, and a
\* Run file is deleted only once the output handle is closed.
C4_CleanedWhenSettled ==
  \A j \in Jobs :
    (Settled(j) /\ (hist[j].loopFailed \/ Resolved(j))) =>
      /\ \A i \in 1..Len(proc[j].fileHandles) : ~proc[j].fileHandles[i].open
      /\ ~proc[j].outFile.open
      /\ \A i \in 1..Len(proc[j].segments) : ~Exists(proc[j].segments[i])

C4_CleanupOrdered ==
  \A j \in Jobs :
    LET p == proc[j]
        runsClosed == \A i \in 1..Len(p.fileHandles) : ~p.fileHandles[i].open
    IN  /\ (p.outFile.open /\ ~proc'[j].outFile.open) => runsClosed
        /\ \A i \in 1..Len(p.segments) :
             (Exists(p.segments[i]) /\ ~Exists(p.segments[i])') =>
               (hist[j].outOpened /\ ~p.outFile.open /\ runsClosed)

C5_MalformedRejected ==
  \A j \in Jobs :
    ~WellFormed(hist[j].input) =>
      /\ ~hist[j].validated
      /\ hist[j].created = {}
      /\ (Settled(j) /\ ~hist[j].faulted
            /\ Len(hist[j].input) <= sorter.maxFileSizeBytes) =>
           (Rejected(j) /\ proc[j].error = "LineLength")

\* C6: a Sort of an input whose record count is not a multiple of
\* numberOfLinesPerSegment fails, creates no Run file and does not open the
\* output file, which stays as it was; when nothing else is wrong with the
\* input the error is the one of the count check.
C6_NotDivisibleRejected ==
  \A j \in Jobs :
    (Settled(j) /\ Len(Windows(hist[j].input)) % sorter.numberOfLinesPerSegment # 0) =>
      /\ Rejected(j)
      /\ hist[j].created = {}
      /\ ~hist[j].outOpened
      /\ Exists(proc[j].outFilename) => Content(proc[j].outFilename) = <<120>>
      /\ (WellFormed(hist[j].input) /\ ~hist[j].faulted
            /\ Len(hist[j].input) <= sorter.maxFileSizeBytes) =>
           proc[j].error = "NotDivisible"

\* A Sort of three whole records, two per segment, rejected by the count
\* check, its output file still missing.
C6_Witness ==
  \E j \in Jobs :
    /\ Rejected(j)
    /\ proc[j].error = "NotDivisible"
    /\ WellFormed(hist[j].input)
    /\ Len(Windows(hist[j].input)) = 3
    /\ ~Exists("d/n.txt")
    /\ proc[j].outFilename = "d/n.txt"

\* C7: the check of the output location fails exactly when the directory
\* of the output path does not exist.
C7_OutputCheckIsOnDirectory ==
  \A j \in Jobs :
    /\ (Rejected(j) /\ proc[j].error = "OutputDirectory") =>
         Dirname(proc[j].outFilename) \notin Dirs
    /\ hist[j].validated => Dirname(proc[j].outFilename) \in Dirs

\* What a Sort of a file of whole records leaves in its output file.
SortedFile(content) ==
  LET sorted == SortLines(Records(content))
  IN  Flatten([i \in 1..Len(sorted) |-> sorted[i] \o EOL])

\* C8: two Sorts at once over different input paths and different output
\* paths create disjoint sets of Run files, and each that resolves leaves
\* the output it leaves when it runs alone.
C8_ConcurrentSortsDisjoint ==
  /\ hist[1].created \cap hist[2].created = {}
  /\ \A j \in Jobs :
       (Settled(j) /\ faults = 0) =>
         (Resolved(j) /\ Output(j) = SortedFile(hist[j].input))

\* C9: the stages of one Sort run in sequence: no step of run generation
\* before validation has passed, no step of the merge before run generation
\* has returned with the whole input in Run files that all exist, nothing of
\* a later stage after a stage has failed, and Sort resolves only when all
\* three stages have completed.
C9_StagesInSequence ==
  \A j \in Jobs :
    LET p == proc[j]
        h == hist[j]
    IN  /\ ("segment" \in h.ran \/ h.created # {}) => h.validated
        /\ h.validated => ~p.fileHandle.open \/ "segment" \in h.ran
        /\ "merge" \in h.ran =>
             /\ h.segmented
             /\ ~p.fileHandle.open
             /\ {p.segments[i] : i \in 1..Len(p.segments)} = h.created
             /\ p.bytesRead >= Len(h.input)
        /\ h.outOpened => "merge" \in h.ran
        /\ h.segmented => h.validated
        /\ h.merged => h.segmented
        /\ Resolved(j) => (h.merged /\ p.error = NoError)
        /\ (Rejected(j) /\ ~h.validated) => (h.ran \subseteq {"validate"} /\ h.created = {})
        /\ (Rejected(j) /\ ~h.segmented) => ("merge" \notin h.ran /\ ~h.outOpened)
        /\ (Settled(j) /\ p.error # NoError) => Rejected(j)

\* A Sort that failed in run generation after creating a Run: validation
\* had passed and no step of the merge ran.
C9_Witness ==
  \E j \in Jobs :
    /\ Rejected(j)
    /\ hist[j].validated
    /\ ~hist[j].segmented
    /\ hist[j].created # {}
    /\ hist[j].ran = {"validate", "segment"}

\* C10: a Sort of a valid input that is already sorted leaves an output
\* file equal to the input byte for byte; and a second Sort, of the output
\* of a Sort, leaves an output file equal to its input byte for byte.
C10_SortedIsFixedPoint ==
  /\ \A j \in Jobs :
       (Settled(j) /\ faults = 0 /\ hist[j].validated
          /\ proc[j].outFilename \notin Dirs
          /\ NonDecreasing(Records(hist[j].input))) =>
         (Resolved(j) /\ Output(j) = hist[j].input)
  /\ \A j \in Jobs :
       (Settled(j) /\ faults = 0 /\ plan[j].after # 0) =>
         (Resolved(j) /\ Output(j) = hist[j].input)

\* The place of the dot that starts the extension of a path: the last dot
\* of its last component, 0 when that component has none.
ExtensionAt(path) ==
  LET slashes == {i \in 1..Len(path) : SubSeq(path, i, i) = "/"}
      from == IF slashes = {} THEN 0 ELSE SetMax(slashes)
      dots == {i \in (from + 1)..Len(path) : SubSeq(path, i, i) = "."}
  IN  IF dots = {} THEN 0 ELSE SetMax(dots)

\* The name a Run is said to have: the input path without its extension,
\* "-temp-", the index, and the extension of the input (".txt" without one).
NamedRun(inFilename, i) ==
  LET at == ExtensionAt(inFilename)
      stem == IF at = 0 THEN inFilename ELSE SubSeq(inFilename, 1, at - 1)
      extension == IF at = 0 THEN ".txt" ELSE SubSeq(inFilename, at, Len(inFilename))
  IN  stem \o "-temp-" \o ToString(i) \o extension

\* C11: the i-th Run of a Sort (i = 0, 1, 2, ...) is named by the input path
\* without its extension, "-temp-", i and the extension of the input (".txt"
\* when it has none); it lies in the directory of the input; and the list
\* sortSegments builds holds these paths in the order of the windows.
C11_RunNames ==
  \A j \in Jobs :
    \A k \in 1..Len(proc[j].segments) :
      /\ proc[j].segments[k] = NamedRun(proc[j].inFilename, k - 1)
      /\ Dirname(proc[j].segments[k]) = Dirname(proc[j].inFilename)

\* The records of window k (k = 1, 2, ...) of a file cut into windows of
\* numberOfLinesPerSegment records.
WindowRecords(content, k) ==
  LET s == sorter.numberOfLinesPerSegment
      records == Records(content)
  IN  SubSeq(records, (k - 1) * s + 1, IF k * s <= Len(records) THEN k * s ELSE Len(records))

\* C12: for a validated input of n records and a segment size s, the k-th
\* Run holds exactly the s records of the k-th window of the input, as a
\* multiset, in ascending order when it is written; a window is read only
\* after every earlier window is sorted and written; a Run file keeps the
\* bytes it was created with for as long as it exists; and sortSegments
\* returns exactly n / s Runs, in the order of the file.
C12_RunsHoldWindows ==
  \A j \in Jobs :
    LET p == proc[j]
        h == hist[j]
        s == sorter.numberOfLinesPerSegment
        w == sorter.lineSizeBytes
    IN  h.validated =>
          /\ Len(p.segments) = Len(h.runs)
          /\ \A k \in 1..Len(h.runs) :
               /\ NonDecreasing(h.runs[k])
               /\ Len(h.runs[k]) = s
               /\ BagOf(h.runs[k]) = BagOf(WindowRecords(h.input, k))
               /\ Exists(p.segments[k]) =>
                    Content(p.segments[k]) = AsciiEncode(JoinLines(h.runs[k]))
          /\ p.pc \in {"readSegment", "writeSortedSegment"} =>
               /\ Len(h.runs) = p.segmentCounter
               /\ p.bytesRead = p.segmentCounter * s * w
          /\ h.segmented => Len(h.runs) * s = Len(Records(h.input))

\* C13: whenever findMinLine is called with at least one buffer that is not
\* exhausted, the minLine it returns is the smallest of the buffered values
\* that are not exhausted and its minIndex is a position of the list (from
\* 0) whose buffer equals minLine, whatever characters the payloads begin
\* with; so the loop writes a buffered value and advances an existing cursor.
C13_MinIsBuffered ==
  \A j \in Jobs :
    LET p == proc[j]
        live == {i \in 1..Len(p.lines) : p.lines[i] # <<>>}
    IN  (p.pc = "writeLineToOutput" /\ live # {}) =>
          /\ p.minIndex \in 0..(Len(p.lines) - 1)
          /\ p.lines[p.minIndex + 1] = p.minLine
          /\ p.minIndex + 1 \in live
          /\ \A i \in live : ~LexLess(p.lines[i], p.minLine)

\* The loop of performMerge of job j is over: the output was opened and the
\* invocation is in its cleanup or has settled.
LoopEnded(j) ==
  /\ hist[j].outOpened
  /\ proc[j].pc \in {"cleanupCloseRuns", "cleanupCloseOut", "cleanupUnlink",
                     "resolved", "rejected"}

\* The number of records the cursors have moved past their first record.
Advanced(positions) ==
  LET w == sorter.lineSizeBytes
      RECURSIVE Sum(_)
      Sum(i) == IF i = 0 THEN 0 ELSE Sum(i - 1) + (positions[i] \div w) - 1
  IN  Sum(Len(positions))

\* C14: the merge loop, on the Runs sortSegments produced and with no I/O
\* failure, ends, and ends only by finding every buffer exhausted; every
\* iteration writes one record and advances one cursor by lineSizeBytes; so
\* the records written are never more than the Runs hold, and at the end
\* they are the records of the Runs, each written once.
C14_MergeLoopExact ==
  \A j \in Jobs :
    LET p == proc[j]
        h == hist[j]
        records == Flatten(h.runs)
    IN  (h.outOpened /\ ~h.faulted) =>
          /\ Len(h.written) <= Len(records)
          /\ p.pc = "writeLineToOutput" => Len(h.written) = Advanced(p.positions)
          /\ p.pc = "readNextLine" => Len(h.written) = Advanced(p.positions) + 1
          /\ LoopEnded(j) =>
               /\ ~h.loopFailed
               /\ \A i \in 1..Len(p.lines) : p.lines[i] = <<>>
               /\ Len(h.written) = Advanced(p.positions)
               /\ BagOf(h.written) = BagOf(records)

\* The positions (from 1) of the buffers that hold the smallest of the
\* values buffered and not exhausted.
Smallest(lines) ==
  {i \in 1..Len(lines) :
     /\ lines[i] # <<>>
     /\ \A k \in 1..Len(lines) : lines[k] # <<>> => ~LexLess(lines[k], lines[i])}

\* C15: in an iteration of the merge in which two or more cursors buffer the
\* same smallest value, the record written is that value, taken from the
\* Run of lowest index among them, and the cursor of that Run is the one
\* the iteration advances.
C15_TieTakesLowestRun ==
  \A j \in Jobs :
    LET p == proc[j]
        ties == Smallest(p.lines)
    IN  (p.pc \in {"writeLineToOutput", "readNextLine"} /\ Cardinality(ties) >= 2) =>
          /\ p.minIndex + 1 = SetMin(ties)
          /\ p.minLine = p.lines[SetMin(ties)]

\* C16: every record a Sort writes, into a Run file or into the output
\* file, is lineSizeBytes bytes long; so every Run file is
\* numberOfLinesPerSegment * lineSizeBytes bytes long and every cursor of
\* the merge stands on a record boundary of its Run.
C16_RecordsHaveFixedWidth ==
  \A j \in Jobs :
    LET p == proc[j]
        h == hist[j]
        s == sorter.numberOfLinesPerSegment
        w == sorter.lineSizeBytes
    IN  h.validated =>
          /\ \A k \in 1..Len(h.runs) :
               /\ \A i \in 1..Len(h.runs[k]) :
                    Len(AsciiEncode(h.runs[k][i] \o EOL)) = w
               /\ Len(AsciiEncode(JoinLines(h.runs[k]))) = s * w
          /\ \A i \in 1..Len(h.written) : Len(OutputRecord(h.written[i])) = w
          /\ \A i \in 1..Len(p.positions) : p.positions[i] % w = 0

C18_HandlesClosedWhenSettled ==
  \A j \in Jobs :
    Settled(j) =>
      /\ ~proc[j].fileHandle.open
      /\ \A i \in 1..Len(proc[j].fileHandles) : ~proc[j].fileHandles[i].open
      /\ ~proc[j].outFile.open

\* C19: with lineSizeBytes at least 2 and an input that passed validation,
\* no record read into memory has the payload "", the value that marks a
\* Run as exhausted; so a buffer of the merge equal to "" belongs to a Run
\* with no unread record, and the loop does not end while a Run holds a
\* record that was not written.
C19_PayloadIsNeverTheSentinel ==
  \A j \in Jobs :
    LET p == proc[j]
        h == hist[j]
        w == sorter.lineSizeBytes
    IN  (h.validated /\ w >= 2) =>
          /\ p.pc \in {"readSegment", "writeSortedSegment"} =>
               \A i \in 1..Len(p.lines) : p.lines[i] # <<>>
          /\ p.pc \in {"readInitialLines", "writeLineToOutput", "readNextLine"} =>
               \A i \in 1..Len(p.lines) :
                 (i \notin p.pending /\ p.lines[i] = <<>>) =>
                   p.positions[i] - w >= Len(inodes[p.fileHandles[i].ino])
          /\ (LoopEnded(j) /\ ~h.loopFailed) => Len(h.written) >= Len(Flatten(h.runs))

\* C20: a Sort whose output path is not its input path never writes,
\* truncates, replaces or deletes its input file: from its start on, on
\* success and on every failure, the input file is the file it was and
\* holds the bytes it held (an input that was missing stays missing); no
\* Run path of the Sort is the path of its input.
C20_InputUntouched ==
  \A j \in Jobs :
    LET p == proc[j]
        h == hist[j]
    IN  (p.pc # "idle" /\ p.outFilename # p.inFilename) =>
          /\ IF h.inputIno = ""
             THEN ~Exists(p.inFilename)
             ELSE /\ Exists(p.inFilename)
                  /\ files[p.inFilename] = h.inputIno
                  /\ Content(p.inFilename) = h.input
          /\ \A k \in 1..Len(p.segments) : p.segments[k] # p.inFilename
          /\ p.inFilename \notin h.created

\* C20, its case: a Sort resolved after it created Runs next to its input,
\* merged them into another path and deleted them; the input is unchanged.
C20_Witness ==
  \E j \in Jobs :
    /\ Resolved(j)
    /\ proc[j].outFilename # proc[j].inFilename
    /\ Len(hist[j].input) > 0
    /\ Cardinality(hist[j].created) >= 2
    /\ Len(hist[j].written) >= 2
    /\ Content(proc[j].inFilename) = hist[j].input

====
